---- MODULE Spec2Model ----
(***************************************************************************)
(* The IOCP proactor driver of compio (compio-driver/src/iocp/mod.rs):     *)
(* Driver::create_op, Driver::push, Driver::cancel, Driver::poll with      *)
(* Driver::create_entry, NotifyHandle::notify, and the parties the driver  *)
(* hands work to: the completion port, the asyncify pool's threads, the    *)
(* kernel's overlapped requests and the wait completion packets of Event   *)
(* operations.                                                             *)
(***************************************************************************)
EXTENDS Integers, Sequences, FiniteSets, TLC

\* ------------------------------------------------------------- bounds
NKeys == 2          \* operation cells create_op can make
MaxPush == 2        \* push calls in all that the pool did not refuse
MaxPool == 2        \* largest thread limit of the asyncify pool
MaxNotify == 1      \* notify sentinels in the port at a time
MaxBytes == 1       \* largest count a system call returns

Keys == 1..NKeys
\* user_data of the driver's notify_overlapped. A key's user_data is the
\* address of its own cell, so no key has this one.
NotifyUD == 0
UDs == Keys \cup {NotifyUD}

Overlapped == "Overlapped"
Blocking == "Blocking"
Event == "Event"

\* An operation: its op_type, and whether its cancel hook aborts the kernel
\* request (CancelIoEx) or is the trait's default, which does nothing.
OpKinds ==
    { [type |-> Overlapped, cancelio |-> TRUE],
      [type |-> Overlapped, cancelio |-> FALSE],
      [type |-> Blocking, cancelio |-> FALSE],
      [type |-> Event, cancelio |-> FALSE] }
NoOp == [type |-> "none", cancelio |-> FALSE]

\* What an operation's operate_blocking can return
BodyResults == {"OpOk", "OpErr"}

VARIABLES
    ops,        \* key -> the operation in its cell
    cell,       \* key -> "none" (not created) | "alive" | "freed"
    cap,        \* the pool's thread limit
    rd,         \* an operation of the readiness driver (poll/op.rs)
    pc,         \* the driver thread: "idle", or "polling" (blocked in poll)
    queue,      \* the completion port's queue of raw entries
    waits,      \* Driver.waits: user_data -> wait completion packet
    jobs,       \* key -> pool threads running its closure, not yet posted
    exiting,    \* pool threads that posted and have not yet returned
    kern,       \* key -> overlapped requests the kernel holds
    abortreq,   \* key -> the kernel was asked to abort its requests
    signalled,  \* key -> the Event operation's handle is signalled
    hist,       \* key -> the results of its push calls, in order (a run of
                \* Busy refusals is recorded once)
    deliv,      \* user_data -> the results poll wrote to its output, in order
    canc,       \* key -> cancel was called since its last push
    woke,       \* the batch the last poll took held the notify sentinel
    owed,       \* a notify was made and no poll has returned since
    uaf         \* a freed cell was dereferenced

vars == << ops, cell, cap, rd, pc, queue, waits, jobs, exiting, kern, abortreq,
           signalled, hist, deliv, canc, woke, owed, uaf >>

\* ------------------------------------------------------------- helpers
OpType(k) == ops[k].type

Entry(ud, res) == [ud |-> ud, res |-> res]

RECURSIVE CountOf(_, _)
CountOf(s, x) ==
    IF s = << >> THEN 0
    ELSE (IF Head(s) = x THEN 1 ELSE 0) + CountOf(Tail(s), x)

RECURSIVE CountUD(_, _)
CountUD(s, ud) ==
    IF s = << >> THEN 0
    ELSE (IF Head(s).ud = ud THEN 1 ELSE 0) + CountUD(Tail(s), ud)

RECURSIVE Sum(_, _)
Sum(f, n) == IF n = 0 THEN 0 ELSE f[n] + Sum(f, n - 1)

\* push calls made so far, the refused ones aside
Pushes == Sum([k \in Keys |-> Len(hist[k]) - CountOf(hist[k], "Busy")], NKeys)

\* hist with one more result
Record(h, r) ==
    IF r = "Busy" /\ h # << >> /\ h[Len(h)] = "Busy" THEN h ELSE Append(h, r)

\* pushes of k that returned Pending, and whether one is still undelivered
Pendings(k) == CountOf(hist[k], "Pending")
InFlight(k) == Pendings(k) > Len(deliv[k])

\* ------------------------------------------------------ completion port
\* cp::Port::post / PortHandle::post: enqueue an entry
Post(q, ud, res) == Append(q, Entry(ud, res))
\* cp::Port::post_raw: a synthetic completion carrying only the header
PostRaw(q, ud) == Post(q, ud, "Ok0")

\* ------------------------------------------------------- asyncify pool
\* threads of the pool that hold a closure
Busy == Sum(jobs, NKeys) + exiting
\* AsyncifyPool::dispatch is refused when no thread is available
DispatchOk == Busy < cap
Dispatch(ud) == [jobs EXCEPT ![ud] = @ + 1]

\* ------------------------------------------------ wait completion packet
\* WaitCompletionPacket::new: armed, or queued at once on a signalled handle
NewPacket(sig) == [st |-> IF sig THEN "fired" ELSE "armed", cancelled |-> FALSE]
\* WaitCompletionPacket::cancel succeeds on a packet that has not fired
WaitCancelOk(w) == w.st = "armed"
WaitCancelled(w) == [st |-> "off", cancelled |-> TRUE]
IsCancelled(w) == w.cancelled

\* HashMap<usize, WaitCompletionPacket>: a key is in it when it has a packet
NoPacket == [st |-> "none", cancelled |-> FALSE]
InWaits(ws, ud) == ud \in Keys /\ ws[ud].st # "none"

\* ----------------------------------------------------------------- Init
\* Driver::new: an empty port, an empty waits table, an idle pool
DriverInit ==
    /\ ops = [k \in Keys |-> NoOp]
    /\ cell = [k \in Keys |-> "none"]
    /\ cap \in 1..MaxPool
    /\ pc = "idle"
    /\ queue = << >>
    /\ waits = [k \in Keys |-> NoPacket]
    /\ jobs = [k \in Keys |-> 0]
    /\ exiting = 0
    /\ kern = [k \in Keys |-> 0]
    /\ abortreq = [k \in Keys |-> FALSE]
    /\ signalled = [k \in Keys |-> FALSE]
    /\ hist = [k \in Keys |-> << >>]
    /\ deliv = [u \in UDs |-> << >>]
    /\ canc = [k \in Keys |-> FALSE]
    /\ woke = FALSE
    /\ owed = FALSE
    /\ uaf = FALSE

\* ------------------------------------------------- readiness operations
\* (compio/src/driver/poll/op.rs) One operation of the readiness driver: its
\* pre_submit, the poller's event, its on_event.
ReadyOps == {"ReadAt", "WriteAt", "Sync", "Accept", "Connect",
             "Recv", "Send", "RecvFrom", "SendTo"}

\* What a system call returns: a count, or -1 with errno set
Errnos == {"EAGAIN", "EINPROGRESS", "EIO"}
SysResults ==
    { [ret |-> n, errno |-> "none"] : n \in 0..MaxBytes }
    \cup { [ret |-> -1, errno |-> e] : e \in Errnos }
NoSys == [ret |-> -2, errno |-> "none"]
WouldBlock(r) == r.ret = -1 /\ r.errno \in {"EAGAIN", "EINPROGRESS"}

\* Decision::Completed(n), Decision::wait_readable(fd),
\* Decision::wait_writable(fd), and Err(e) of io::Result<Decision>
Completed(n) == [t |-> "Completed", n |-> n, e |-> "none"]
WaitReadable == [t |-> "WaitReadable", n |-> 0, e |-> "none"]
WaitWritable == [t |-> "WaitWritable", n |-> 0, e |-> "none"]
Failed(e) == [t |-> "Err", n |-> 0, e |-> e]
NoDecision == [t |-> "none", n |-> 0, e |-> "none"]
IsWait(d) == d.t \in {"WaitReadable", "WaitWritable"}
\* Poll::Pending of on_event
PollPending == [t |-> "Pending", n |-> 0, e |-> "none"]

\* syscall!(f(..))? : the count, or the error returned to the caller
SyscallTry(r) == IF r.ret # -1 THEN Completed(r.ret) ELSE Failed(r.errno)
\* syscall!(f(..) or wait(fd)) : a call that would block becomes the wait
SyscallOr(r, wait) ==
    IF r.ret # -1 THEN Completed(r.ret)
    ELSE IF WouldBlock(r) THEN wait ELSE Failed(r.errno)
\* syscall!(break f(..)) : a call that would block becomes Poll::Pending
SyscallBreak(r) ==
    IF r.ret # -1 THEN Completed(r.ret)
    ELSE IF WouldBlock(r) THEN PollPending ELSE Failed(r.errno)

\* polling::Event
NoEvent == [readable |-> FALSE, writable |-> FALSE]
EventFor(d) == [readable |-> d.t = "WaitReadable", writable |-> d.t = "WaitWritable"]

\* No readiness operation is under way
RdNone == [op |-> "none", linux |-> FALSE, pc |-> "done", tried |-> 0,
           sys |-> NoSys, dec |-> NoDecision, ev |-> NoEvent,
           res |-> NoDecision, failed |-> FALSE]
\* An operation that was built and not yet submitted; linux tells whether
\* the target is one of linux, android, illumos
RdNew(op, linux) == [RdNone EXCEPT !.op = op, !.linux = linux, !.pc = "new"]

Init == DriverInit /\ rd = RdNone

\* ----------------------------------------------------------- operations
\* Driver::create_op: a new cell holding the operation. Cells are taken in
\* the order of their keys.
CreateOp(k) ==
    /\ pc = "idle"
    /\ cell[k] = "none"
    /\ \A j \in Keys : j < k => cell[j] # "none"
    /\ \E o \in OpKinds : ops' = [ops EXCEPT ![k] = o]
    /\ cell' = [cell EXCEPT ![k] = "alive"]
    /\ UNCHANGED << cap, rd, pc, queue, waits, jobs, exiting, kern, abortreq,
                    signalled, hist, deliv, canc, woke, owed, uaf >>

\* OpCode::operate of an Overlapped operation: the kernel took the request
\* (Pending), or the call finished inline with a count (Ready) or an error
\* (Err); only a taken request is completed through the port.
OperateOutcomes == {"Pending", "Ready", "Err"}
KernelTakes(r) == r = "Pending"

\* push_blocking handing the closure over even when the pool is saturated
PushBlockingAlwaysQueues(k, ok) ==
    /\ ok = DispatchOk
    /\ jobs' = Dispatch(k)

\* push_blocking dropping dispatch's answer
PushBlockingIgnoresRefusal(k, ok) ==
    /\ ok = TRUE
    /\ jobs' = Dispatch(k)

\* push_blocking reading dispatch's answer the wrong way round
PushBlockingReportsBusy(k, ok) ==
    /\ ok = ~DispatchOk
    /\ jobs' = IF DispatchOk THEN Dispatch(k) ELSE jobs

\* Driver::push_blocking: dispatch a closure to the pool; ok = it was taken
PushBlocking(k, ok) ==
    /\ ok = DispatchOk
    /\ jobs' = IF ok THEN Dispatch(k) ELSE jobs

\* Driver::push, the Overlapped arm: operate's result is returned as it is
PushOverlapped(k, r) ==
    /\ OpType(k) = Overlapped
    /\ kern' = [kern EXCEPT ![k] = IF KernelTakes(r) THEN @ + 1 ELSE @]
    /\ hist' = [hist EXCEPT ![k] = Append(@, r)]
    /\ UNCHANGED << jobs, waits, queue >>

\* Driver::push, the Blocking arm
PushBlockingArm(k) ==
    /\ OpType(k) = Blocking
    /\ \E ok \in BOOLEAN :
         /\ PushBlocking(k, ok)
         /\ hist' = [hist EXCEPT ![k] = Record(@, IF ok THEN "Pending" ELSE "Busy")]
    /\ UNCHANGED << kern, waits, queue >>

\* the Event arm inserting a packet before it looks at the registration
PushEventInsertsFirst(k, reg) ==
    /\ OpType(k) = Event
    /\ waits' = [waits EXCEPT ![k] = NewPacket(signalled[k] /\ reg)]
    /\ queue' = IF signalled[k] /\ reg THEN PostRaw(queue, k) ELSE queue
    /\ hist' = [hist EXCEPT ![k] = Append(@, IF reg THEN "Pending" ELSE "Err")]
    /\ UNCHANGED << kern, jobs >>

\* the Event arm dropping the key's packet when the registration fails
PushEventDropsOnFailure(k, reg) ==
    /\ OpType(k) = Event
    /\ IF reg
       THEN /\ waits' = [waits EXCEPT ![k] = NewPacket(signalled[k])]
            /\ queue' = IF signalled[k] THEN PostRaw(queue, k) ELSE queue
            /\ hist' = [hist EXCEPT ![k] = Append(@, "Pending")]
       ELSE /\ hist' = [hist EXCEPT ![k] = Append(@, "Err")]
            /\ waits' = [waits EXCEPT ![k] = NoPacket]
            /\ UNCHANGED queue
    /\ UNCHANGED << kern, jobs >>

\* Driver::push, the Event arm: `?` returns a failed registration before
\* waits.insert runs
PushEvent(k, reg) ==
    /\ OpType(k) = Event
    /\ IF reg
       THEN /\ waits' = [waits EXCEPT ![k] = NewPacket(signalled[k])]
            /\ queue' = IF signalled[k] THEN PostRaw(queue, k) ELSE queue
            /\ hist' = [hist EXCEPT ![k] = Append(@, "Pending")]
       ELSE /\ hist' = [hist EXCEPT ![k] = Append(@, "Err")]
            /\ UNCHANGED << waits, queue >>
    /\ UNCHANGED << kern, jobs >>

\* Driver::push on the cell of key k
PushCall(k) ==
    /\ pc = "idle"
    /\ cell[k] = "alive"
    /\ Pushes < MaxPush
    /\ \/ \E r \in OperateOutcomes : PushOverlapped(k, r)
       \/ PushBlockingArm(k)
       \/ \E reg \in BOOLEAN : PushEvent(k, reg)
    /\ canc' = [canc EXCEPT ![k] = FALSE]
    /\ UNCHANGED << ops, cell, cap, rd, pc, exiting, abortreq, signalled, deliv,
                    woke, owed, uaf >>

\* A caller that keeps the contract pushes a key that is not in flight
Push(k) == ~InFlight(k) /\ PushCall(k)
\* A caller that breaks it pushes a key whose entry is still to come
RePush(k) == InFlight(k) /\ PushCall(k)

\* cancel without the post_raw that stands in for the cancelled packet
CancelWaitsNoPost(k) ==
    IF InWaits(waits, k) /\ WaitCancelOk(waits[k])
    THEN /\ waits' = [waits EXCEPT ![k] = WaitCancelled(@)]
         /\ UNCHANGED queue
    ELSE UNCHANGED << waits, queue >>

\* cancel posting an entry whether or not the key has a packet
CancelWaitsAlwaysPosts(k) ==
    /\ waits' = IF InWaits(waits, k) /\ WaitCancelOk(waits[k])
                THEN [waits EXCEPT ![k] = WaitCancelled(@)]
                ELSE waits
    /\ queue' = PostRaw(queue, k)

\* cancel posting a stand-in entry for a Blocking key whose closure is out
CancelWaitsPostsForBlocking(k) ==
    IF InWaits(waits, k) /\ WaitCancelOk(waits[k])
    THEN /\ waits' = [waits EXCEPT ![k] = WaitCancelled(@)]
         /\ queue' = PostRaw(queue, k)
    ELSE /\ queue' = IF OpType(k) = Blocking /\ jobs[k] > 0
                     THEN PostRaw(queue, k) ELSE queue
         /\ UNCHANGED waits

\* cancel posting although the packet's cancel failed (it had fired)
CancelWaitsIgnoresResult(k) ==
    IF InWaits(waits, k)
    THEN /\ waits' = IF WaitCancelOk(waits[k])
                     THEN [waits EXCEPT ![k] = WaitCancelled(@)]
                     ELSE waits
         /\ queue' = PostRaw(queue, k)
    ELSE UNCHANGED << waits, queue >>

\* cancel taking the cancelled packet out of the waits table itself
CancelWaitsRemoves(k) ==
    IF InWaits(waits, k) /\ WaitCancelOk(waits[k])
    THEN /\ waits' = [waits EXCEPT ![k] = NoPacket]
         /\ queue' = PostRaw(queue, k)
    ELSE UNCHANGED << waits, queue >>

\* Driver::cancel, the waits arm: a cancelled packet posts nothing itself, so
\* the driver posts the entry
CancelWaits(k) ==
    IF InWaits(waits, k) /\ WaitCancelOk(waits[k])
    THEN /\ waits' = [waits EXCEPT ![k] = WaitCancelled(@)]
         /\ queue' = PostRaw(queue, k)
    ELSE UNCHANGED << waits, queue >>

\* OpCode::cancel: the default does nothing; an operation's own hook asks
\* the kernel to abort the request it holds
CancelHook(k) ==
    abortreq' = [abortreq EXCEPT ![k] = @ \/ (ops[k].cancelio /\ kern[k] > 0)]

\* Driver::cancel
Cancel(k) ==
    /\ pc = "idle"
    /\ cell[k] = "alive"
    /\ CancelWaits(k)
    /\ CancelHook(k)
    /\ canc' = [canc EXCEPT ![k] = TRUE]
    /\ UNCHANGED << ops, cell, cap, rd, pc, jobs, exiting, kern, signalled, hist,
                    deliv, woke, owed, uaf >>

\* create_entry without its test of notify_user_data
CreateEntryKeepsSentinel(notify_user_data, ws, entry, operate_blocking) ==
    IF InWaits(ws, entry.ud)
    THEN LET w == ws[entry.ud]
             removed == [ws EXCEPT ![entry.ud] = NoPacket]
         IN  IF IsCancelled(w)
             THEN [waits |-> removed,
                   some |-> << Entry(entry.ud, "Canceled") >>,
                   deref |-> {}]
             ELSE [waits |-> removed,
                   some |-> << Entry(entry.ud, operate_blocking[entry.ud]) >>,
                   deref |-> {entry.ud}]
    ELSE [waits |-> ws, some |-> << entry >>, deref |-> {}]

\* create_entry running the blocking body of a cancelled packet's operation
CreateEntryIgnoresCancel(notify_user_data, ws, entry, operate_blocking) ==
    IF entry.ud # notify_user_data
    THEN IF InWaits(ws, entry.ud)
         THEN [waits |-> [ws EXCEPT ![entry.ud] = NoPacket],
               some |-> << Entry(entry.ud, operate_blocking[entry.ud]) >>,
               deref |-> {entry.ud}]
         ELSE [waits |-> ws, some |-> << entry >>, deref |-> {}]
    ELSE [waits |-> ws, some |-> << >>, deref |-> {}]

\* create_entry looking the packet up without taking it out of the table
CreateEntryLeavesPacket(notify_user_data, ws, entry, operate_blocking) ==
    IF entry.ud # notify_user_data
    THEN IF InWaits(ws, entry.ud)
         THEN IF IsCancelled(ws[entry.ud])
              THEN [waits |-> ws,
                    some |-> << Entry(entry.ud, "Canceled") >>,
                    deref |-> {}]
              ELSE [waits |-> ws,
                    some |-> << Entry(entry.ud, operate_blocking[entry.ud]) >>,
                    deref |-> {entry.ud}]
         ELSE [waits |-> ws, some |-> << entry >>, deref |-> {}]
    ELSE [waits |-> ws, some |-> << >>, deref |-> {}]

\* create_entry reporting the raw entry of a packet that fired
CreateEntryPassesRaw(notify_user_data, ws, entry, operate_blocking) ==
    IF entry.ud # notify_user_data
    THEN IF InWaits(ws, entry.ud)
         THEN LET w == ws[entry.ud]
                  removed == [ws EXCEPT ![entry.ud] = NoPacket]
              IN  IF IsCancelled(w)
                  THEN [waits |-> removed,
                        some |-> << Entry(entry.ud, "Canceled") >>,
                        deref |-> {}]
                  ELSE [waits |-> removed, some |-> << entry >>, deref |-> {}]
         ELSE [waits |-> ws, some |-> << entry >>, deref |-> {}]
    ELSE [waits |-> ws, some |-> << >>, deref |-> {}]

\* create_entry running the blocking body for every entry of a key
CreateEntryAlwaysRunsBody(notify_user_data, ws, entry, operate_blocking) ==
    IF entry.ud # notify_user_data
    THEN IF InWaits(ws, entry.ud)
         THEN LET w == ws[entry.ud]
                  removed == [ws EXCEPT ![entry.ud] = NoPacket]
              IN  IF IsCancelled(w)
                  THEN [waits |-> removed,
                        some |-> << Entry(entry.ud, "Canceled") >>,
                        deref |-> {}]
                  ELSE [waits |-> removed,
                        some |-> << Entry(entry.ud, operate_blocking[entry.ud]) >>,
                        deref |-> {entry.ud}]
         ELSE [waits |-> ws,
               some |-> << Entry(entry.ud, operate_blocking[entry.ud]) >>,
               deref |-> {entry.ud}]
    ELSE [waits |-> ws, some |-> << >>, deref |-> {}]

\* Driver::create_entry: the entry poll reports for a raw entry, if any; the
\* waits table after it; the cells it dereferenced. operate_blocking gives
\* what each operation's blocking body returns.
CreateEntry(notify_user_data, ws, entry, operate_blocking) ==
    IF entry.ud # notify_user_data
    THEN IF InWaits(ws, entry.ud)
         THEN LET w == ws[entry.ud]
                  removed == [ws EXCEPT ![entry.ud] = NoPacket]
              IN  IF IsCancelled(w)
                  THEN [waits |-> removed,
                        some |-> << Entry(entry.ud, "Canceled") >>,
                        deref |-> {}]
                  ELSE [waits |-> removed,
                        some |-> << Entry(entry.ud, operate_blocking[entry.ud]) >>,
                        deref |-> {entry.ud}]
         ELSE [waits |-> ws, some |-> << entry >>, deref |-> {}]
    ELSE [waits |-> ws, some |-> << >>, deref |-> {}]

\* Driver::poll's filter_map over the batch the port returned
RECURSIVE PollFold(_, _, _, _, _)
PollFold(ws, batch, acc, derefs, bodies) ==
    IF batch = << >>
    THEN [waits |-> ws, out |-> acc, deref |-> derefs]
    ELSE LET r == CreateEntry(NotifyUD, ws, Head(batch), bodies)
         IN  PollFold(r.waits, Tail(batch), acc \o r.some,
                      derefs \cup r.deref, bodies)

RECURSIVE ResultsFor(_, _)
ResultsFor(s, ud) ==
    IF s = << >> THEN << >>
    ELSE (IF Head(s).ud = ud THEN << Head(s).res >> ELSE << >>)
         \o ResultsFor(Tail(s), ud)

\* Driver::poll is entered: the thread blocks in the port
PollEnter ==
    /\ pc = "idle"
    /\ pc' = "polling"
    /\ woke' = FALSE
    /\ UNCHANGED << ops, cell, cap, rd, queue, waits, jobs, exiting, kern,
                    abortreq, signalled, hist, deliv, canc, owed, uaf >>

\* cp::Port::poll returns what the port holds; Driver::poll turns the batch
\* into entries and extends its output with them
PollReturn ==
    /\ pc = "polling"
    /\ queue # << >>
    /\ \E bodies \in [Keys -> BodyResults] :
         LET r == PollFold(waits, queue, << >>, {}, bodies)
         IN  /\ waits' = r.waits
             /\ deliv' = [u \in UDs |-> deliv[u] \o ResultsFor(r.out, u)]
             /\ uaf' = (uaf \/ \E k \in r.deref : cell[k] = "freed")
    /\ woke' = (CountUD(queue, NotifyUD) > 0)
    /\ queue' = << >>
    /\ pc' = "idle"
    /\ owed' = FALSE
    /\ UNCHANGED << ops, cell, cap, rd, jobs, exiting, kern, abortreq, signalled,
                    hist, canc >>

\* cp::Port::poll times out on an empty port: an empty batch
PollTimeout ==
    /\ pc = "polling"
    /\ queue = << >>
    /\ pc' = "idle"
    /\ UNCHANGED << ops, cell, cap, rd, queue, waits, jobs, exiting, kern,
                    abortreq, signalled, hist, deliv, canc, woke, owed, uaf >>

\* notify that posts nothing
NotifyLost ==
    /\ CountUD(queue, NotifyUD) < MaxNotify
    /\ owed' = TRUE
    /\ UNCHANGED << ops, cell, cap, rd, pc, queue, waits, jobs, exiting, kern,
                    abortreq, signalled, hist, deliv, canc, woke, uaf >>

\* NotifyHandle::notify, from any thread
Notify ==
    /\ CountUD(queue, NotifyUD) < MaxNotify
    /\ queue' = PostRaw(queue, NotifyUD)
    /\ owed' = TRUE
    /\ UNCHANGED << ops, cell, cap, rd, pc, waits, jobs, exiting, kern, abortreq,
                    signalled, hist, deliv, canc, woke, uaf >>

\* the closure also waking the driver through its notify sentinel
WorkerRunAlsoNotifies(k) ==
    /\ jobs[k] > 0
    /\ \E res \in BodyResults : queue' = PostRaw(Post(queue, k, res), NotifyUD)
    /\ uaf' = (uaf \/ cell[k] = "freed")
    /\ jobs' = [jobs EXCEPT ![k] = @ - 1]
    /\ exiting' = exiting + 1
    /\ UNCHANGED << ops, cell, cap, rd, pc, waits, kern, abortreq, signalled, hist,
                    deliv, canc, woke, owed >>

\* The closure of push_blocking on a pool thread: rebuild the key from
\* user_data, run operate_blocking, post the result
WorkerRun(k) ==
    /\ jobs[k] > 0
    /\ \E res \in BodyResults : queue' = Post(queue, k, res)
    /\ uaf' = (uaf \/ cell[k] = "freed")
    /\ jobs' = [jobs EXCEPT ![k] = @ - 1]
    /\ exiting' = exiting + 1
    /\ UNCHANGED << ops, cell, cap, rd, pc, waits, kern, abortreq, signalled, hist,
                    deliv, canc, woke, owed >>

\* The closure returned: the pool thread is available again
WorkerDone ==
    /\ exiting > 0
    /\ exiting' = exiting - 1
    /\ UNCHANGED << ops, cell, cap, rd, pc, queue, waits, jobs, kern, abortreq,
                    signalled, hist, deliv, canc, woke, owed, uaf >>

\* The kernel completes an overlapped request into the port, writing the
\* operation's OVERLAPPED
KernelResults(k) == {"OpOk"} \cup (IF abortreq[k] THEN {"Aborted"} ELSE {})
KernelComplete(k) ==
    /\ kern[k] > 0
    /\ \E res \in KernelResults(k) : queue' = Post(queue, k, res)
    /\ kern' = [kern EXCEPT ![k] = @ - 1]
    /\ abortreq' = [abortreq EXCEPT ![k] = @ /\ kern[k] > 1]
    /\ uaf' = (uaf \/ cell[k] = "freed")
    /\ UNCHANGED << ops, cell, cap, rd, pc, waits, jobs, exiting, signalled, hist,
                    deliv, canc, woke, owed >>

\* The event an Event operation waits on becomes signalled: an armed packet
\* fires into the port
Signal(k) ==
    /\ OpType(k) = Event
    /\ ~signalled[k]
    /\ signalled' = [signalled EXCEPT ![k] = TRUE]
    /\ IF InWaits(waits, k) /\ waits[k].st = "armed"
       THEN /\ waits' = [waits EXCEPT ![k].st = "fired"]
            /\ queue' = PostRaw(queue, k)
       ELSE UNCHANGED << waits, queue >>
    /\ UNCHANGED << ops, cell, cap, rd, pc, jobs, exiting, kern, abortreq, hist,
                    deliv, canc, woke, owed, uaf >>

\* The caller drops a key it pushed and holds no pending submission for
Free(k) ==
    /\ pc = "idle"
    /\ cell[k] = "alive"
    /\ hist[k] # << >>
    /\ ~InFlight(k)
    /\ cell' = [cell EXCEPT ![k] = "freed"]
    /\ UNCHANGED << ops, cap, rd, pc, queue, waits, jobs, exiting, kern, abortreq,
                    signalled, hist, deliv, canc, woke, owed, uaf >>

Next ==
    \/ \E k \in Keys : CreateOp(k)
    \/ \E k \in Keys : Push(k)
    \/ \E k \in Keys : Cancel(k)
    \/ PollEnter
    \/ PollReturn
    \/ PollTimeout
    \/ Notify
    \/ \E k \in Keys : WorkerRun(k)
    \/ WorkerDone
    \/ \E k \in Keys : KernelComplete(k)
    \/ \E k \in Keys : Signal(k)
    \/ \E k \in Keys : Free(k)

Spec == Init /\ [][Next]_vars

\* A caller that may push a key again before its entry came
NextMisuse == Next \/ \E k \in Keys : RePush(k)
MisuseSpec == Init /\ [][NextMisuse]_vars

\* The runtime's loop keeps polling; a pool thread runs the closure it was
\* given and returns; the kernel completes a request it was asked to abort.
\* A request nobody aborts may stay with the kernel for ever.
Fairness ==
    /\ WF_vars(PollEnter)
    /\ WF_vars(PollReturn)
    /\ \A k \in Keys : WF_vars(WorkerRun(k))
    /\ WF_vars(WorkerDone)
    /\ \A k \in Keys : WF_vars(abortreq[k] /\ KernelComplete(k))
FairSpec == Init /\ [][Next]_vars /\ Fairness

\* Accept::pre_submit returning a call that would block as an error
PreSubmitAcceptFails(op, linux, r) ==
    CASE op = "ReadAt" ->
           IF linux THEN [dec |-> SyscallTry(r), tried |-> 1]
           ELSE [dec |-> WaitReadable, tried |-> 0]
      [] op = "WriteAt" ->
           IF linux THEN [dec |-> SyscallTry(r), tried |-> 1]
           ELSE [dec |-> WaitWritable, tried |-> 0]
      [] op = "Sync" -> [dec |-> SyscallTry(r), tried |-> 1]
      [] op = "Accept" -> [dec |-> SyscallTry(r), tried |-> 1]
      [] op = "Connect" -> [dec |-> SyscallOr(r, WaitWritable), tried |-> 1]
      [] op = "Recv" -> [dec |-> WaitReadable, tried |-> 0]
      [] op = "Send" -> [dec |-> WaitWritable, tried |-> 0]
      [] op = "RecvFrom" -> [dec |-> SyscallOr(r, WaitReadable), tried |-> 1]
      [] op = "SendTo" -> [dec |-> SyscallOr(r, WaitWritable), tried |-> 1]

\* Connect::pre_submit asking to wait for the socket to become readable
PreSubmitConnectReadable(op, linux, r) ==
    CASE op = "ReadAt" ->
           IF linux THEN [dec |-> SyscallTry(r), tried |-> 1]
           ELSE [dec |-> WaitReadable, tried |-> 0]
      [] op = "WriteAt" ->
           IF linux THEN [dec |-> SyscallTry(r), tried |-> 1]
           ELSE [dec |-> WaitWritable, tried |-> 0]
      [] op = "Sync" -> [dec |-> SyscallTry(r), tried |-> 1]
      [] op = "Accept" -> [dec |-> SyscallOr(r, WaitReadable), tried |-> 1]
      [] op = "Connect" -> [dec |-> SyscallOr(r, WaitReadable), tried |-> 1]
      [] op = "Recv" -> [dec |-> WaitReadable, tried |-> 0]
      [] op = "Send" -> [dec |-> WaitWritable, tried |-> 0]
      [] op = "RecvFrom" -> [dec |-> SyscallOr(r, WaitReadable), tried |-> 1]
      [] op = "SendTo" -> [dec |-> SyscallOr(r, WaitWritable), tried |-> 1]

\* ------------------------------------------- readiness driver operations
\* OpCode::pre_submit of each operation; r is what the system call returns
\* when pre_submit makes one. tried = the call was made.
PreSubmit(op, linux, r) ==
    CASE op = "ReadAt" ->
           IF linux THEN [dec |-> SyscallTry(r), tried |-> 1]
           ELSE [dec |-> WaitReadable, tried |-> 0]
      [] op = "WriteAt" ->
           IF linux THEN [dec |-> SyscallTry(r), tried |-> 1]
           ELSE [dec |-> WaitWritable, tried |-> 0]
      [] op = "Sync" -> [dec |-> SyscallTry(r), tried |-> 1]
      [] op = "Accept" -> [dec |-> SyscallOr(r, WaitReadable), tried |-> 1]
      [] op = "Connect" -> [dec |-> SyscallOr(r, WaitWritable), tried |-> 1]
      [] op = "Recv" -> [dec |-> WaitReadable, tried |-> 0]
      [] op = "Send" -> [dec |-> WaitWritable, tried |-> 0]
      [] op = "RecvFrom" -> [dec |-> SyscallOr(r, WaitReadable), tried |-> 1]
      [] op = "SendTo" -> [dec |-> SyscallOr(r, WaitWritable), tried |-> 1]

\* What on_event asserts of the event: debug_assert!(event.readable),
\* debug_assert!(event.writable), or unreachable!()
OnEventAsserts(op, ev) ==
    CASE op \in {"ReadAt", "Accept", "Recv", "RecvFrom"} -> ev.readable
      [] op \in {"WriteAt", "Connect", "Send", "SendTo"} -> ev.writable
      [] op = "Sync" -> FALSE

\* OpCode::on_event: the assertion, then the system call again. Connect reads
\* SO_ERROR instead and is always Ready.
OnEvent(op, ev, r) ==
    [failed |-> ~OnEventAsserts(op, ev),
     poll |-> IF op = "Connect"
              THEN SyscallTry([r EXCEPT !.ret = IF @ = -1 THEN -1 ELSE 0])
              ELSE SyscallBreak(r)]

DriverUnchanged ==
    UNCHANGED << ops, cell, cap, pc, queue, waits, jobs, exiting, kern,
                 abortreq, signalled, hist, deliv, canc, woke, owed, uaf >>

\* The driver submits the operation: pre_submit's decision either completes
\* it or registers the interest it names with the poller
RdPreSubmit ==
    /\ rd.pc = "new"
    /\ \E r \in SysResults :
         LET p == PreSubmit(rd.op, rd.linux, r)
         IN  rd' = [rd EXCEPT !.tried = p.tried,
                              !.sys = IF p.tried = 1 THEN r ELSE NoSys,
                              !.dec = p.dec,
                              !.res = IF IsWait(p.dec) THEN NoDecision ELSE p.dec,
                              !.pc = IF IsWait(p.dec) THEN "waiting" ELSE "done"]
    /\ DriverUnchanged

\* The poller reports the registered direction ready
RdPollerEvent ==
    /\ rd.pc = "waiting"
    /\ rd' = [rd EXCEPT !.ev = EventFor(rd.dec), !.pc = "event"]
    /\ DriverUnchanged

\* The driver hands the event to on_event: the operation completes, or is
\* armed again when the call would still block
RdOnEvent ==
    /\ rd.pc = "event"
    /\ \E r \in SysResults :
         LET o == OnEvent(rd.op, rd.ev, r)
         IN  rd' = [rd EXCEPT !.failed = @ \/ o.failed,
                              !.res = o.poll,
                              !.pc = IF o.poll = PollPending THEN "waiting" ELSE "done"]
    /\ DriverUnchanged

ReadyInit ==
    /\ DriverInit
    /\ cap = 1
    /\ rd \in { RdNew(op, linux) : op \in ReadyOps, linux \in BOOLEAN }
ReadyNext == RdPreSubmit \/ RdPollerEvent \/ RdOnEvent
ReadySpec == ReadyInit /\ [][ReadyNext]_vars

\* ------------------------------------------------------------- claims
Last(h) == h[Len(h)]

\* C1: no entry poll writes to its output carries the user_data of the
\* notify sentinel, whatever was pushed, cancelled, notified and polled.
C1_SentinelSuppressed == deliv[NotifyUD] = << >>
\* a poll took the sentinel in a batch and entries of keys were delivered
C1_Witness == woke /\ pc = "idle" /\ \E k \in Keys : deliv[k] # << >>

\* Nothing is left that can post an entry for k
NoSource(k) ==
    /\ CountUD(queue, k) = 0
    /\ ~InWaits(waits, k)
    /\ jobs[k] = 0
    /\ kern[k] = 0
\* Operations whose entry does not wait on the kernel's good will: Event and
\* Blocking ones, and Overlapped ones whose cancel hook aborts the request
Covered(k) == OpType(k) \in {Event, Blocking} \/ ops[k].cancelio

\* C2 as stated: after cancel(k), for every key k, an entry for k appears in
\* poll's output. Read on a state where cancel(k) was called and nothing is
\* left to post an entry for k: the entry must have been delivered.
C2_CancelTotalAnyKey ==
    \A k \in Keys : (canc[k] /\ NoSource(k)) => deliv[k] # << >>
\* C2, amended: cancel(k) on a key whose push returned Pending and whose entry
\* is still to come (an Event or Blocking operation, or an Overlapped one
\* whose cancel hook aborts the kernel request) is followed by the delivery
\* of that entry, and no key is delivered more entries than it had pushes
\* that returned Pending.
C2_CancelTotal ==
    /\ \A k \in Keys : (canc[k] /\ InFlight(k) /\ Covered(k)) ~> ~InFlight(k)
    /\ [](\A k \in Keys : Len(deliv[k]) <= Pendings(k))
\* a cancelled submission was delivered as Canceled
C2_Witness == \E k \in Keys : canc[k] /\ deliv[k] = << "Canceled" >>

\* C3: a Blocking push that finds the pool saturated returns Busy and leaves
\* the port, the waits table, the pool and the kernel as they were; one that
\* finds a thread free (also after an earlier refusal of the same key) hands
\* the closure over and returns Pending.
C3_BusyBackpressure ==
    [][\A k \in Keys :
         (OpType(k) = Blocking /\ hist'[k] # hist[k]) =>
            IF Busy >= cap
            THEN /\ Last(hist'[k]) = "Busy"
                 /\ UNCHANGED << queue, waits, jobs, exiting, kern >>
                 /\ ~InFlight(k)'
            ELSE /\ Last(hist'[k]) = "Pending"
                 /\ jobs' = [jobs EXCEPT ![k] = @ + 1]]_vars
\* a key the pool refused was pushed again and taken
C3_Witness ==
    \E k \in Keys : \E i \in 1..Len(hist[k]) - 1 :
        hist[k][i] = "Busy" /\ hist[k][i + 1] = "Pending"

\* C4: a poll that ends while a notify is owed ends by taking the sentinel
\* from the port, not by its timeout, and with no operation in flight it
\* writes no entry.
C4_Wakeup ==
    [][(pc = "polling" /\ pc' = "idle" /\ owed) =>
          /\ woke'
          /\ (\A k \in Keys : ~InFlight(k)) => deliv' = deliv]_vars
\* a poll was woken with no operation ever pushed
C4_Witness == woke /\ pc = "idle" /\ \A k \in Keys : hist[k] = << >>

\* C5 as stated: no freed cell is dereferenced, and the entry of every
\* cancelled operation in flight is delivered.
C5_LifetimeAnyCancelled ==
    /\ [](~uaf)
    /\ \A k \in Keys : (canc[k] /\ InFlight(k)) ~> ~InFlight(k)
\* C5, amended: no freed cell is dereferenced by the driver, a pool thread or
\* the kernel; the entry of a cancelled operation in flight is delivered when
\* the operation is an Event or Blocking one or an Overlapped one whose
\* cancel hook aborts the kernel request.
C5_LifetimeSafety ==
    /\ [](~uaf)
    /\ \A k \in Keys : (canc[k] /\ InFlight(k) /\ Covered(k)) ~> ~InFlight(k)
\* a cancelled operation's entry was delivered and its cell freed after it
C5_Witness ==
    \E k \in Keys :
        cell[k] = "freed" /\ deliv[k] \in {<< "Canceled" >>, << "Aborted" >>}

\* C6: while the packet of an Event key is flagged cancelled exactly one raw
\* entry for the key is in the port, and the entry poll delivers for it is
\* Canceled, whenever the event is signalled.
C6_EventCancelIsCanceled ==
    /\ [][\A k \in Keys :
            (InWaits(waits, k) /\ IsCancelled(waits[k]) /\ deliv'[k] # deliv[k])
               => deliv'[k] = Append(deliv[k], "Canceled")]_vars
    /\ [](\A k \in Keys :
            (InWaits(waits, k) /\ IsCancelled(waits[k])) => CountUD(queue, k) = 1)
\* an Event operation was cancelled, its event signalled, Canceled delivered
C6_Witness ==
    \E k \in Keys :
        OpType(k) = Event /\ signalled[k] /\ deliv[k] = << "Canceled" >>

\* C7: a key that was never pushed has no entry, in the port or delivered,
\* also when it was cancelled.
C7_CompletionFollowsSubmission ==
    \A k \in Keys : hist[k] = << >> => (deliv[k] = << >> /\ CountUD(queue, k) = 0)
\* a key was cancelled and never pushed while another key's entry came
C7_Witness ==
    \E k, j \in Keys : canc[k] /\ hist[k] = << >> /\ deliv[j] # << >>

\* entries for k that are delivered, in the port, or still to be posted
Accounted(k) ==
    Len(deliv[k]) + CountUD(queue, k) + jobs[k] + kern[k]
    + (IF InWaits(waits, k) /\ waits[k].st = "armed" THEN 1 ELSE 0)
\* C8: every entry of a key, delivered, queued or still to be posted, belongs
\* to a push that returned Pending: a push that returned Busy or an error
\* (and one that returned Ready) accounts for none.
C8_SubmitErrorsInline == \A k \in Keys : Accounted(k) = Pendings(k)
\* a key's last push failed, a poll returned since, nothing came for the key
C8_Witness ==
    \E k \in Keys :
        /\ hist[k] # << >>
        /\ Last(hist[k]) \in {"Err", "Busy"}
        /\ Len(deliv[k]) = Pendings(k)
        /\ \E j \in Keys : j # k /\ deliv[j] # << >>

\* C9: a push of a key whose entry is still to come is rejected and leaves
\* the waits table, the pool, the kernel and the port as they were.
C9_RePushRejected ==
    [][\A k \in Keys :
         (InFlight(k) /\ hist'[k] # hist[k]) =>
            /\ Last(hist'[k]) \in {"Err", "Busy"}
            /\ UNCHANGED << waits, jobs, kern, queue >>]_vars

\* the first push made is a Blocking one of key a
FirstBlockingPush(a) == OpType(a) = Blocking /\ Pushes = 0 /\ hist'[a] # << >>
\* a is in flight from the only push so far and Blocking key b is pushed
SecondBlockingPush(a, b) ==
    /\ a # b
    /\ OpType(a) = Blocking /\ OpType(b) = Blocking
    /\ hist[a] = << "Pending" >> /\ deliv[a] = << >>
    /\ \A c \in Keys \ {a} : hist[c] = << >>
    /\ hist'[b] # << >>
\* C10 as stated: with a pool of one thread the first Blocking push returns
\* Pending and the second, made before any entry was taken, returns Busy
\* wherever the pool thread is with the first.
C10_SecondAlwaysBusy ==
    [][cap = 1 => \A a, b \in Keys :
         /\ FirstBlockingPush(a) => hist'[a] = << "Pending" >>
         /\ SecondBlockingPush(a, b) => hist'[b] = << "Busy" >>]_vars
\* C10, amended: the second returns Busy while the pool thread still holds
\* the first closure, and Pending once that thread has returned to the pool.
C10_SecondBusyWhileFirstRuns ==
    [][cap = 1 => \A a, b \in Keys :
         /\ FirstBlockingPush(a) => hist'[a] = << "Pending" >>
         /\ SecondBlockingPush(a, b) =>
               hist'[b] = << IF jobs[a] > 0 \/ exiting > 0
                             THEN "Busy" ELSE "Pending" >>]_vars
\* pool of one: the first is in flight and the second was refused
C10_Witness ==
    /\ cap = 1
    /\ \E a, b \in Keys :
         /\ OpType(a) = Blocking /\ OpType(b) = Blocking
         /\ hist[a] = << "Pending" >> /\ deliv[a] = << >>
         /\ hist[b] = << "Busy" >>

\* C11: for a Blocking key, entries delivered, queued and still with a pool
\* thread add up to its pushes that returned Pending, whatever cancel calls
\* were made; cancel leaves the dispatched closures, the key's queued entries
\* and its delivered ones as they were; a pool thread that ends a closure
\* posts one entry with the body's result; poll delivers for the key just
\* the results the pool threads posted.
C11_BlockingCancelAdvisory ==
    /\ [](\A k \in Keys : OpType(k) = Blocking =>
             /\ Len(deliv[k]) + CountUD(queue, k) + jobs[k] = Pendings(k)
             /\ \A i \in 1..Len(deliv[k]) : deliv[k][i] \in BodyResults)
    /\ [][\A k \in Keys : OpType(k) = Blocking =>
             /\ (~canc[k] /\ canc'[k]) =>
                   /\ jobs' = jobs
                   /\ ResultsFor(queue', k) = ResultsFor(queue, k)
                   /\ deliv' = deliv
             /\ jobs'[k] < jobs[k] =>
                   \E res \in BodyResults : queue' = Append(queue, Entry(k, res))
             /\ (pc = "polling" /\ pc' = "idle") =>
                   deliv'[k] = deliv[k] \o ResultsFor(queue, k)]_vars
\* a Blocking key was cancelled while a pool thread held its closure, and
\* the closure is still there
C11_Witness ==
    \E k \in Keys : OpType(k) = Blocking /\ canc[k] /\ jobs[k] = 1

\* C12: a key is in the waits table exactly while it is an Event key with a
\* push that returned Pending and whose entry poll has not yet consumed; keys
\* of Overlapped and Blocking operations are never in it, and the table has
\* no packet under the notify sentinel's user_data.
C12_WaitsWhileLive ==
    /\ \A k \in Keys : InWaits(waits, k) <=> (OpType(k) = Event /\ InFlight(k))
    /\ ~InWaits(waits, NotifyUD)
\* one Event key's entry was consumed and its packet is gone, another Event
\* key's packet is live
C12_Witness ==
    \E k, j \in Keys :
        /\ OpType(k) = Event /\ OpType(j) = Event
        /\ Pendings(k) = 1 /\ Len(deliv[k]) = 1 /\ ~InWaits(waits, k)
        /\ InWaits(waits, j)

\* the operation's pre_submit has run
Submitted == rd.op # "none" /\ rd.pc # "new"
\* operations whose pre_submit names a direction without making the call
WaitsFirst ==
    rd.op \in {"Recv", "Send"} \/ (rd.op \in {"ReadAt", "WriteAt"} /\ ~rd.linux)
\* operations whose pre_submit turns a call that would block into a wait
TriesOrWaits == rd.op \in {"Accept", "Connect", "RecvFrom", "SendTo"}

\* C13 as stated: pre_submit of every operation made the system call, its
\* decision is a wait only when the call would have blocked, and otherwise
\* it is the call's count or its error.
C13_PreSubmitTriesFirst ==
    Submitted =>
       /\ rd.tried = 1
       /\ IsWait(rd.dec) => WouldBlock(rd.sys)
       /\ ~WouldBlock(rd.sys) => rd.dec = SyscallTry(rd.sys)
\* C13, amended: Accept, Connect, RecvFrom and SendTo make the call and wait
\* exactly when it would block; Sync, and ReadAt and WriteAt on linux,
\* android and illumos, make the call and return its count or its error,
\* never a wait; Recv and Send, and ReadAt and WriteAt on other targets,
\* name their direction without making the call.
C13_PreSubmitPerOperation ==
    Submitted =>
       /\ rd.tried = 0 <=> WaitsFirst
       /\ WaitsFirst => IsWait(rd.dec)
       /\ ~WaitsFirst => (IsWait(rd.dec) <=> (TriesOrWaits /\ WouldBlock(rd.sys)))
       /\ (~WaitsFirst /\ ~IsWait(rd.dec)) => rd.dec = SyscallTry(rd.sys)
\* Recv was submitted and waits for its socket without having read from it
C13_Witness ==
    rd.op = "Recv" /\ rd.pc = "waiting" /\ rd.tried = 0 /\ rd.dec = WaitReadable

\* C14: a poll that takes the entry of a key whose packet is in the waits
\* table and not cancelled removes the packet and delivers for the key one
\* result of its blocking body, not the raw entry's; an Event push on a
\* signalled handle that returns Pending leaves the packet in the table and
\* its entry in the port, for the next poll to take.
C14_WaitsEntryRunsBody ==
    [][\A k \in Keys :
         /\ (/\ pc = "polling" /\ pc' = "idle"
             /\ InWaits(waits, k) /\ ~IsCancelled(waits[k])
             /\ CountUD(queue, k) > 0) =>
               /\ ~InWaits(waits', k)
               /\ \E r \in BodyResults : deliv'[k] = Append(deliv[k], r)
         /\ (/\ OpType(k) = Event /\ signalled[k]
             /\ hist'[k] # hist[k] /\ Last(hist'[k]) = "Pending") =>
               /\ InWaits(waits', k) /\ ~IsCancelled(waits'[k])
               /\ CountUD(queue', k) = 1]_vars
\* an Event key on a signalled handle, never cancelled, got its body's result
C14_Witness ==
    \E k \in Keys :
        /\ OpType(k) = Event /\ signalled[k] /\ ~canc[k]
        /\ hist[k] = << "Pending" >> /\ deliv[k] = << "OpOk" >>
        /\ ~InWaits(waits, k)

\* C15: for a raw entry in the port whose user_data is neither the sentinel's
\* nor in the waits table, create_entry returns that very entry and the
\* table it was given; and a poll delivers, for every key that is not in the
\* waits table, just the results of the key's raw entries, in their order,
\* leaving the key out of the table.
C15_PassThrough ==
    /\ [](\A i \in 1..Len(queue) :
            (queue[i].ud # NotifyUD /\ ~InWaits(waits, queue[i].ud)) =>
               \A bodies \in [Keys -> BodyResults] :
                  LET r == CreateEntry(NotifyUD, waits, queue[i], bodies)
                  IN  r.some = << queue[i] >> /\ r.waits = waits)
    /\ [][(pc = "polling" /\ pc' = "idle") =>
            \A k \in Keys : ~InWaits(waits, k) =>
               /\ deliv'[k] = deliv[k] \o ResultsFor(queue, k)
               /\ ~InWaits(waits', k)]_vars
\* the kernel's result for an aborted Overlapped request came out as it was
C15_Witness ==
    \E k \in Keys : OpType(k) = Overlapped /\ deliv[k] = << "Aborted" >>

\* C16: a push of an Event key either returns Pending with a fresh packet
\* under the key's user_data in the waits table and every other key's packet
\* as it was, or returns the registration's error with the waits table and
\* the port as they were, a packet the key already had included.
C16_EventPushRegisters ==
    [][\A k \in Keys :
         (OpType(k) = Event /\ hist'[k] # hist[k]) =>
            \/ /\ Last(hist'[k]) = "Pending"
               /\ InWaits(waits', k) /\ ~IsCancelled(waits'[k])
               /\ \A j \in Keys \ {k} : waits'[j] = waits[j]
            \/ /\ Last(hist'[k]) = "Err"
               /\ waits' = waits
               /\ queue' = queue]_vars
\* a push of an Event key failed while the key had a packet: it still has it
C16_Witness ==
    \E k \in Keys :
        /\ OpType(k) = Event
        /\ hist[k] = << "Pending", "Err" >> /\ deliv[k] = << >>
        /\ InWaits(waits, k)

\* C17: the step in which a pool thread ends the closure of key k appends one
\* entry to the port, carrying k's user_data and the body's result, and
\* leaves the waits table, the pool's limit, the driver's position, the
\* kernel's requests and everything the driver recorded as they were.
C17_WorkerFrame ==
    [][\A k \in Keys :
         jobs'[k] < jobs[k] =>
            /\ \E res \in BodyResults : queue' = Append(queue, Entry(k, res))
            /\ jobs' = [jobs EXCEPT ![k] = @ - 1]
            /\ UNCHANGED << ops, cell, cap, pc, waits, kern, abortreq,
                            signalled, hist, deliv, canc, woke, owed >>]_vars
\* a pool thread posted a Blocking key's entry while an Event key's packet
\* was in the waits table
C17_Witness ==
    \E k, j \in Keys :
        /\ OpType(k) = Blocking /\ jobs[k] = 0 /\ exiting = 1
        /\ CountUD(queue, k) = 1
        /\ InWaits(waits, j)

\* C18: poll has delivered for no key more entries than the key has pushes
\* that returned Pending, whatever the order of push, cancel (also repeated),
\* signal, pool threads, notify and poll.
C18_NoDuplicateCompletion ==
    \A k \in Keys : Len(deliv[k]) <= Pendings(k)
\* a key was submitted twice; both entries came, one of them for a cancel
C18_Witness ==
    \E k \in Keys :
        /\ Pendings(k) = 2 /\ Len(deliv[k]) = 2
        /\ \E i \in 1..2 : deliv[k][i] = "Canceled"

\* C19: no on_event has failed its assertion; an operation that waits, waits
\* for readable when it is ReadAt, Accept, Recv or RecvFrom and for writable
\* when it is WriteAt, Connect, Send or SendTo, and the event on_event is
\* given has that direction; Sync never waits and is never given an event.
C19_OnEventAssertionsHold ==
    rd.op # "none" =>
       /\ ~rd.failed
       /\ IsWait(rd.dec) =>
             rd.dec = IF rd.op \in {"ReadAt", "Accept", "Recv", "RecvFrom"}
                      THEN WaitReadable ELSE WaitWritable
       /\ rd.pc = "event" => OnEventAsserts(rd.op, rd.ev)
       /\ rd.op = "Sync" =>
             (~IsWait(rd.dec) /\ rd.pc \in {"new", "done"} /\ rd.ev = NoEvent)
\* Connect waited for writable, was given the event and completed in on_event
C19_Witness ==
    /\ rd.op = "Connect" /\ rd.dec = WaitWritable
    /\ rd.ev.writable /\ rd.pc = "done"

\* the keys of the waits table
WaitsKeys(ws) == { k \in Keys : InWaits(ws, k) }
\* a poll returns in this step
PollReturns == pc = "polling" /\ pc' = "idle"
\* C20: a key leaves the waits table only in a step where poll returns; the
\* step of a cancel (the key's cancel mark is set, or its packet becomes
\* flagged) leaves the table's key set as it was; a flagged packet stays in
\* the table, flagged, through every step that is not a poll's return.
C20_CancelKeepsKeys ==
    [][/\ (WaitsKeys(waits) \ WaitsKeys(waits') # {}) => PollReturns
       /\ \A k \in Keys :
            /\ ((~canc[k] /\ canc'[k])
                \/ (InWaits(waits, k) /\ ~IsCancelled(waits[k])
                    /\ InWaits(waits', k) /\ IsCancelled(waits'[k]))) =>
                  WaitsKeys(waits') = WaitsKeys(waits)
            /\ (InWaits(waits, k) /\ IsCancelled(waits[k]) /\ ~PollReturns) =>
                  waits'[k] = waits[k]
            /\ (WaitCancelOk(waits[k]) /\ ~canc[k] /\ canc'[k]) =>
                  (InWaits(waits', k) /\ IsCancelled(waits'[k]))]_vars
\* a poll is blocked in the port while a cancelled packet is in the table
C20_Witness ==
    \E k \in Keys :
        pc = "polling" /\ canc[k] /\ InWaits(waits, k) /\ IsCancelled(waits[k])

====
